---- MODULE Spec2Model ----
(***************************************************************************)
(* State-machine model of the entity store (discord/app/cache.py,          *)
(* MemoryCache) and of the event bus (discord/app/event_emitter.py,        *)
(* EventEmitter) together with the message events that read and write the  *)
(* store (discord/events/message.py).                                      *)
(*                                                                         *)
(* Python objects are records with an allocation serial `obj`, so that    *)
(* "the same instance" and "a freshly constructed instance" are facts of   *)
(* the model.  An instance attribute that was never assigned is absent     *)
(* from cache_dict / bus_dict (the instance __dict__), and reading it      *)
(* raises AttributeError, as in Python.                                    *)
(***************************************************************************)
EXTENDS Integers, Sequences, FiniteSets, TLC

\* ------------------------------------------------------------- bounds
MaxN == 2            \* largest configured max_messages
MaxAppends == 4      \* appends to one message deque
MaxObjects == 4      \* objects constructed in one run
MaxFutures == 2      \* waiters created in one run
Spare == 2           \* channel ids beyond the private-channel capacity
MaxRetouch == 1      \* re-uses of the channel id used longest ago
MaxEmojis == 3       \* emojis stored in one run
MaxStickers == 3     \* stickers stored in one run

\* --------------------------------------------------- program constants
Capacity == 128      \* cache.py:328
NoMaxlen == -1       \* max_messages = None (cache.py:174): unbounded deque

UserIds == {1, 2}
Discriminators == {"0000", "0001"}
MsgIds == {1, 2}
Kinds == {"MessageCreate", "MessageUpdate"}
Listeners == {"L1", "L2"}

\* ------------------------------------------------------------- objects
Obj(cls, id, obj, disc, recipient, stored) ==
    [cls |-> cls, id |-> id, obj |-> obj, disc |-> disc,
     recipient |-> recipient, stored |-> stored]

None == Obj("NoneType", 0, 0, "", 0, FALSE)

\* Event.__event_name__ of each typed event kind
EventName(kind) ==
    CASE kind = "MessageCreate" -> "MESSAGE_CREATE"
      [] kind = "MessageUpdate" -> "MESSAGE_UPDATE"
      [] kind = "PollVoteAdd" -> "MESSAGE_POLL_VOTE_ADD"
      [] kind = "PollVoteRemove" -> "MESSAGE_POLL_VOTE_REMOVE"
      [] kind = "MessageDeleteBulk" -> "MESSAGE_DELETE_BULK"
      [] kind = "GuildCreate" -> "GUILD_CREATE"
      [] kind = "GuildJoin" -> "GUILD_JOIN"
      [] kind = "GuildAvailable" -> "GUILD_AVAILABLE"
      [] kind = "ReactionRemoveEmoji" -> "MESSAGE_REACTION_REMOVE_EMOJI"
      [] kind = "CustomCreate" -> "MESSAGE_CREATE"
      [] kind = "MessageDelete" -> "MESSAGE_DELETE"
      [] kind = "ReactionAdd" -> "MESSAGE_REACTION_ADD"
      [] kind = "ReactionRemove" -> "MESSAGE_REACTION_REMOVE"
      [] kind = "ReactionClear" -> "MESSAGE_REACTION_REMOVE_ALL"
      [] kind = "InteractionCreate" -> "INTERACTION_CREATE"
      [] OTHER -> "?"

EventNames == {EventName(k) : k \in Kinds}

\* the kinds whose __load__ can end without an event
SuppressKinds == {"PollVoteAdd", "ReactionRemoveEmoji"}

SuppressNames == {EventName(k) : k \in SuppressKinds}

\* the kinds of the poll vote events
PollKinds == {"PollVoteAdd", "PollVoteRemove"}

\* GuildCreate and the two kinds it trickles down to
GuildKinds == {"GuildCreate", "GuildJoin", "GuildAvailable"}

\* the kinds of the reaction events that upsert the message
ReactionKinds == {"ReactionAdd", "ReactionRemove", "ReactionRemoveEmoji"}

\* two kinds with one wire name: MessageCreate and a subclass of Event that
\* declares the same __event_name__ and inherits Event.__load__
SiblingKinds == {"MessageCreate", "CustomCreate"}

\* the kinds of the events that update or remove a cached message
RemovalKinds ==
    {"MessageDelete", "ReactionAdd", "ReactionRemove", "ReactionClear",
     "ReactionRemoveEmoji"}

RemovalNames == {EventName(k) : k \in RemovalKinds}

\* the payload of a dispatch: the message id and the user id it carries
Data(id, user_id) == [id |-> id, user_id |-> user_id]

Payloads == {Data(id, u) : id \in MsgIds, u \in UserIds}

\* the payload of a poll vote: message id, user id and answer id; answer 3 is
\* an answer the poll does not offer
PollData(id, user_id, answer_id) ==
    [id |-> id, user_id |-> user_id, answer_id |-> answer_id]

PollPayloads == {PollData(id, u, a) : id \in MsgIds, u \in UserIds,
                                      a \in {1, 2, 3}}

\* the payload of a bulk delete: the listed message ids
BulkData(ids) == [id |-> 0, ids |-> ids]

BulkPayloads == {BulkData(ids) : ids \in (SUBSET MsgIds) \ {{}}}

\* the payload of GUILD_CREATE: the guild's id and its `unavailable` field
GuildData(id, unavailable) == [id |-> id, unavailable |-> unavailable]

GuildPayloads == {GuildData(id, un) : id \in {1, 2}, un \in BOOLEAN}

VARIABLES
    cache_dict,                 \* attribute names assigned on the MemoryCache
    max_messages,               \* MemoryCache.max_messages
    users,                      \* MemoryCache._users        id -> User
    messages,                   \* MemoryCache._messages     deque, oldest first
    private_channels,           \* MemoryCache._private_channels, LRU first
    private_channels_by_user,   \* MemoryCache._private_channels_by_user
    emojis,                     \* MemoryCache._emojis       owner id -> list
    views,                      \* MemoryCache._views        message id -> View
    polls,                      \* MemoryCache._polls        message id -> Poll
    stickers,                   \* MemoryCache._stickers     guild id -> list
    modals,                     \* MemoryCache._modals       custom id -> Modal
    guilds,                     \* MemoryCache._guilds       id -> Guild
    reactions,                  \* Message.reactions: serial -> reaction count
    on_errors,                  \* history: custom ids whose on_error ran
    bus_dict,                   \* attribute names assigned on the EventEmitter
    listeners,                  \* EventEmitter._listeners   kind -> callables
    events,                     \* EventEmitter._events      name -> kinds
    wait_fors,                  \* EventEmitter._wait_fors   kind -> futures
    futures,                    \* every Future created: id -> state, result
    tasks,                      \* asyncio tasks created by emit
    subscribed,                 \* history: <<kind, listener>> of add_listener calls
    last_events,                \* history: events the last emit materialized
    nextObj,                    \* allocation serial of the next object
    appended,                   \* history: objects appended to the deque
    pc_used,                    \* history: channel ids in order of last use
    ret                         \* outcome of the last call

cacheVars == <<cache_dict, max_messages, users, messages, private_channels,
               private_channels_by_user, emojis, views, polls, stickers,
               modals, guilds, reactions, on_errors, appended, pc_used>>
busVars == <<bus_dict, listeners, events, wait_fors, futures, tasks,
            subscribed, last_events>>
vars == <<cacheVars, busVars, nextObj, ret>>

\* The outcome of a call: what was called, with what, what it returned and
\* the exception class it raised ("" when it returned normally).
Ret(op, name, key, arg, value, raised) ==
    [op |-> op, name |-> name, key |-> key, arg |-> arg, value |-> value,
     raised |-> raised]

\* ------------------------------------------------------------ helpers
\* a Python list held as a value: returned by a call or carried by an event
PyList(items) == [cls |-> "list", items |-> items]

Range(s) == {s[i] : i \in 1..Len(s)}

\* the ids of the entries of a sequence
IdsOf(s) == {s[i].id : i \in 1..Len(s)}

DictSet(d, k, v) == (k :> v) @@ d

DictPop(d, k) == [x \in DOMAIN d \ {k} |-> d[x]]

SeqRemoveAt(s, i) == SubSeq(s, 1, i - 1) \o SubSeq(s, i + 1, Len(s))

\* index of the first element of s equal to x, 0 when there is none
IndexFrom(s, x, i) ==
    LET hits == {j \in i..Len(s) : s[j] = x}
    IN IF hits = {} THEN 0 ELSE CHOOSE j \in hits : \A k \in hits : j <= k

\* ------------------------------------------------------- MemoryCache
\* The attributes MemoryCache.clear assigns before line 189 raises.  Line 189
\* is the chained assignment  self._emojis = dict[...] = {} : its first target
\* is assigned, its second target is a subscript store on the type dict and
\* raises TypeError, so lines 191-192 never run.
ClearAssigned ==
    {"_users", "_guilds", "_polls", "_stickers", "_modals", "_messages",
     "_emojis"}

ClearRaises == "TypeError"

\* a deque that never drops its oldest entry
DequeAppendUnbounded(d, x, maxlen) == Append(d, x)

\* collections.deque(maxlen=n).append(x)
DequeAppend(d, x, maxlen) ==
    IF maxlen = NoMaxlen \/ Len(d) < maxlen THEN Append(d, x)
    ELSE IF maxlen = 0 THEN d
    ELSE Append(Tail(d), x)

\* utils.find(lambda m: m.id == message_id, reversed(self._messages))
RECURSIVE FindNewest(_, _, _)
FindNewest(d, id, i) ==
    IF i = 0 THEN None
    ELSE IF d[i].id = id THEN d[i] ELSE FindNewest(d, id, i - 1)

GetMessageOn(d, id) == FindNewest(d, id, Len(d))

\* a store_user that builds and stores a user without looking one up first
StoreUserOverwrite(us, payload, serial) ==
    LET u == Obj("User", payload.id, serial, payload.discriminator, 0,
                 payload.discriminator # "0000")
    IN <<u, IF payload.discriminator # "0000"
            THEN DictSet(us, payload.id, u) ELSE us>>

\* store_user on a user mapping: <<returned user, mapping afterwards>>
StoreUserOn(us, payload, serial) ==
    IF payload.id \in DOMAIN us THEN <<us[payload.id], us>>
    ELSE IF payload.discriminator # "0000"
         THEN LET u == Obj("User", payload.id, serial,
                           payload.discriminator, 0, TRUE)
              IN <<u, DictSet(us, payload.id, u)>>
         ELSE <<Obj("User", payload.id, serial, payload.discriminator, 0,
                    FALSE), us>>

UserPayloads == [id : UserIds, discriminator : Discriminators]

StoreUser(p) ==
    /\ p.id \notin DOMAIN users => nextObj <= MaxObjects
    /\ LET r == StoreUserOn(users, p, nextObj)
       IN /\ users' = r[2]
          /\ nextObj' = IF p.id \in DOMAIN users THEN nextObj ELSE nextObj + 1
          /\ ret' = Ret("store_user", p.discriminator, p.id, None, r[1], "")
    /\ UNCHANGED <<cache_dict, max_messages, guilds, reactions, on_errors,
                   stickers, modals, emojis, views, polls, messages,
                   private_channels, private_channels_by_user, appended,
                   pc_used, busVars>>

DeleteUser(id) ==
    /\ users' = DictPop(users, id)
    /\ ret' = Ret("delete_user", "", id, None, None, "")
    /\ UNCHANGED <<cache_dict, max_messages, guilds, reactions, on_errors,
                   stickers, modals, emojis, views, polls, messages,
                   private_channels, private_channels_by_user, appended,
                   pc_used, busVars, nextObj>>

GetUserOn(us, id) == IF id \in DOMAIN us THEN us[id] ELSE None

GetUser(id) ==
    /\ ret' = Ret("get_user", "", id, None, GetUserOn(users, id), "")
    /\ UNCHANGED <<cacheVars, busVars, nextObj>>

\* ---- messages
NewMessage(id, serial) == Obj("Message", id, serial, "", 0, FALSE)

StoreMessage(id) ==
    /\ nextObj <= MaxObjects
    /\ Len(appended) < MaxAppends
    /\ LET msg == NewMessage(id, nextObj)
       IN /\ messages' = DequeAppend(messages, msg, max_messages)
          /\ appended' = Append(appended, msg)
          /\ ret' = Ret("store_message", "", id, None, msg, "")
    /\ nextObj' = nextObj + 1
    /\ UNCHANGED <<cache_dict, max_messages, guilds, reactions, on_errors,
                   stickers, modals, emojis, views, polls, users,
                   private_channels, private_channels_by_user, pc_used,
                   busVars>>

\* an upsert_message that replaces a cached message with the same id where
\* it stands instead of appending
UpsertMessageInPlace(m) ==
    /\ Len(appended) < MaxAppends
    /\ messages' = IF m.id \in IdsOf(messages)
                   THEN [i \in 1..Len(messages) |->
                            IF messages[i].id = m.id THEN m ELSE messages[i]]
                   ELSE DequeAppend(messages, m, max_messages)
    /\ appended' = Append(appended, m)
    /\ nextObj' = IF m.obj = nextObj THEN nextObj + 1 ELSE nextObj
    /\ ret' = Ret("upsert_message", "", m.id, m, None, "")
    /\ UNCHANGED <<cache_dict, max_messages, guilds, reactions, on_errors,
                   stickers, modals, emojis, views, polls, users,
                   private_channels, private_channels_by_user, pc_used,
                   busVars>>

\* upsert_message receives a Message the caller holds: one that was cached
\* before, or one the caller built itself.
UpsertMessage(m) ==
    /\ Len(appended) < MaxAppends
    /\ messages' = DequeAppend(messages, m, max_messages)
    /\ appended' = Append(appended, m)
    /\ nextObj' = IF m.obj = nextObj THEN nextObj + 1 ELSE nextObj
    /\ ret' = Ret("upsert_message", "", m.id, m, None, "")
    /\ UNCHANGED <<cache_dict, max_messages, guilds, reactions, on_errors,
                   stickers, modals, emojis, views, polls, users,
                   private_channels, private_channels_by_user, pc_used,
                   busVars>>

HeldMessages ==
    Range(appended)
        \cup (IF nextObj <= MaxObjects
              THEN {NewMessage(id, nextObj) : id \in MsgIds} ELSE {})

\* MemoryCache defines no delete_message: the call runs the body of
\* Cache.delete_message, which is `...`
DeleteMessageOn(d, id) == d

DeleteMessage(id) ==
    /\ messages' = DeleteMessageOn(messages, id)
    /\ ret' = Ret("delete_message", "", id, None, None, "")
    /\ UNCHANGED <<cache_dict, max_messages, guilds, reactions, on_errors,
                   stickers, modals, emojis, views, polls, users,
                   private_channels, private_channels_by_user, appended,
                   pc_used, busVars, nextObj>>

GetMessage(id) ==
    /\ ret' = Ret("get_message", "", id, None, GetMessageOn(messages, id), "")
    /\ UNCHANGED <<cacheVars, busVars, nextObj>>

\* ---- private channels
DMChannel(id, recipient) == Obj("DMChannel", id, 0, "", recipient, FALSE)

GroupChannel(id) == Obj("GroupChannel", id, 0, "", 0, FALSE)

\* index of the entry of the ordered map with this key, 0 when absent
KeyIndex(od, id, i) ==
    LET hits == {j \in i..Len(od) : od[j].id = id}
    IN IF hits = {} THEN 0 ELSE CHOOSE j \in hits : \A k \in hits : j <= k

\* OrderedDict.__setitem__: a new key goes last, a present key keeps its place
OrderedSet(od, ch) ==
    LET i == KeyIndex(od, ch.id, 1)
    IN IF i = 0 THEN Append(od, ch) ELSE [od EXCEPT ![i] = ch]

\* OrderedDict.move_to_end(key)
MoveToEnd(od, id) ==
    LET i == KeyIndex(od, id, 1)
    IN Append(SeqRemoveAt(od, i), od[i])

IsDMWithRecipient(ch) == ch.cls = "DMChannel" /\ ch.recipient # 0

\* store_private_channel on existing maps: <<ordered map, by-user index>>
StorePrivateChannelOn(od, byUser, ch) ==
    LET od1 == OrderedSet(od, ch)
        evict == Len(od1) > Capacity
        to_remove == Head(od1)
        od2 == IF evict THEN Tail(od1) ELSE od1
        by1 == IF evict /\ IsDMWithRecipient(to_remove)
               THEN DictPop(byUser, to_remove.recipient) ELSE byUser
        by2 == IF IsDMWithRecipient(ch)
               THEN DictSet(by1, ch.recipient, ch) ELSE by1
    IN <<od2, by2>>

\* history of uses: the id becomes the most recently used one
Use(used, id) ==
    LET i == IndexFrom(used, id, 1)
    IN IF i = 0 THEN Append(used, id) ELSE Append(SeqRemoveAt(used, i), id)

ChannelIds == 1..(Capacity + Spare)

\* how often an id other than the last used one was used again
Retouches ==
    Cardinality({i \in 1..(Len(pc_used) - 1) : pc_used[i] > pc_used[i + 1]})

\* Channel ids are opaque: a call names the id used last, the smallest id not
\* used so far or, once as many ids were used as the map can hold, the id
\* used longest ago.
CandidateIds ==
    (IF Len(pc_used) = 0 THEN {} ELSE {pc_used[Len(pc_used)]})
        \cup (IF Len(pc_used) >= Capacity /\ Retouches < MaxRetouch
              THEN {pc_used[1]} ELSE {})
        \cup ({Len(pc_used) + 1} \cap ChannelIds)

CandidateChannels ==
    UNION {{GroupChannel(id)} \cup {DMChannel(id, u) : u \in UserIds \cup {0}}
           : id \in CandidateIds}

StorePrivateChannel(ch) ==
    /\ pc_used' = Use(pc_used, ch.id)
    /\ IF "_private_channels" \notin cache_dict
       THEN /\ ret' = Ret("store_private_channel", ch.cls, ch.id, ch, None,
                          "AttributeError")
            /\ UNCHANGED <<private_channels, private_channels_by_user>>
       ELSE LET r == StorePrivateChannelOn(private_channels,
                                           private_channels_by_user, ch)
            IN /\ private_channels' = r[1]
               /\ private_channels_by_user' = r[2]
               /\ ret' = Ret("store_private_channel", ch.cls, ch.id, ch,
                             None, "")
    /\ UNCHANGED <<cache_dict, max_messages, guilds, reactions, on_errors,
                   stickers, modals, emojis, views, polls, users, messages,
                   appended, busVars, nextObj>>

GetPrivateChannel(id) ==
    /\ IF "_private_channels" \notin cache_dict
       THEN /\ ret' = Ret("get_private_channel", "", id, None, None,
                          "AttributeError")
            /\ UNCHANGED <<private_channels, pc_used>>
       ELSE IF KeyIndex(private_channels, id, 1) = 0
       THEN /\ ret' = Ret("get_private_channel", "", id, None, None, "")
            /\ UNCHANGED <<private_channels, pc_used>>
       ELSE /\ private_channels' = MoveToEnd(private_channels, id)
            /\ pc_used' = Use(pc_used, id)
            /\ ret' = Ret("get_private_channel", "", id, None,
                          private_channels[KeyIndex(private_channels, id, 1)],
                          "")
    /\ UNCHANGED <<cache_dict, max_messages, guilds, reactions, on_errors,
                   stickers, modals, emojis, views, polls, users, messages,
                   private_channels_by_user, appended, busVars, nextObj>>

GetPrivateChannelByUser(uid) ==
    /\ IF "_private_channels_by_user" \notin cache_dict
       THEN ret' = Ret("get_private_channel_by_user", "", uid, None, None,
                       "AttributeError")
       ELSE ret' = Ret("get_private_channel_by_user", "", uid, None,
                       IF uid \in DOMAIN private_channels_by_user
                       THEN private_channels_by_user[uid] ELSE None, "")
    /\ UNCHANGED <<cacheVars, busVars, nextObj>>

\* ---- emojis
\* A GuildEmoji has guild_id, an AppEmoji has application_id; 0 stands for the
\* attribute the variant does not have.  obj = 0: built by the caller.
Emoji(cls, id, obj, owner) ==
    [cls |-> cls, id |-> id, obj |-> obj,
     guild_id |-> IF cls = "GuildEmoji" THEN owner ELSE 0,
     application_id |-> IF cls = "AppEmoji" THEN owner ELSE 0]

EmojiIds == {1, 2}

\* guild ids and application ids are keys of the one _emojis dict
OwnerIds == {1, 2}

EmojiClasses == {"GuildEmoji", "AppEmoji"}

\* store_guild_emoji / store_app_emoji: append to the owner's list
StoreEmojiOn(em, key, e) ==
    IF key \in DOMAIN em THEN [em EXCEPT ![key] = Append(@, e)]
    ELSE DictSet(em, key, <<e>>)

StoreGuildEmoji(guild_id, id) ==
    /\ nextObj <= MaxEmojis
    /\ LET e == Emoji("GuildEmoji", id, nextObj, guild_id)
       IN /\ emojis' = StoreEmojiOn(emojis, guild_id, e)
          /\ ret' = Ret("store_guild_emoji", "", id, e, e, "")
    /\ nextObj' = nextObj + 1
    /\ UNCHANGED <<cache_dict, max_messages, guilds, reactions, on_errors,
                   stickers, modals, users, messages, private_channels,
                   private_channels_by_user, views, polls, appended, pc_used,
                   busVars>>

StoreAppEmoji(application_id, id) ==
    /\ nextObj <= MaxEmojis
    /\ LET e == Emoji("AppEmoji", id, nextObj, application_id)
       IN /\ emojis' = StoreEmojiOn(emojis, application_id, e)
          /\ ret' = Ret("store_app_emoji", "", id, e, e, "")
    /\ nextObj' = nextObj + 1
    /\ UNCHANGED <<cache_dict, max_messages, guilds, reactions, on_errors,
                   stickers, modals, users, messages, private_channels,
                   private_channels_by_user, views, polls, appended, pc_used,
                   busVars>>

\* BaseEmoji.__eq__: two emojis are equal when their ids are
EmojiEq(a, b) == a.id = b.id

\* list.remove(e): index of the first entry equal to e, 0 when there is none
EmojiIndex(lst, e) ==
    LET hits == {j \in 1..Len(lst) : EmojiEq(lst[j], e)}
    IN IF hits = {} THEN 0 ELSE CHOOSE j \in hits : \A k \in hits : j <= k

\* a delete_emoji that drops the emoji's id from every owner's list
DeleteEmojiEverywhere(em, e) ==
    [emojis |-> [k \in DOMAIN em |->
                    SelectSeq(em[k], LAMBDA x : ~EmojiEq(x, e))],
     raised |-> ""]

\* delete_emoji: the list is chosen by the variant, the entry by equality
DeleteEmojiOn(em, e) ==
    LET key == IF e.cls = "AppEmoji" THEN e.application_id ELSE e.guild_id
    IN IF key \notin DOMAIN em THEN [emojis |-> em, raised |-> "KeyError"]
       ELSE IF EmojiIndex(em[key], e) = 0
       THEN [emojis |-> em, raised |-> "ValueError"]
       ELSE [emojis |-> [em EXCEPT
                            ![key] = SeqRemoveAt(@, EmojiIndex(@, e))],
             raised |-> ""]

\* the emojis a caller can pass: the stored ones and ones it built itself
HeldEmojis ==
    UNION {Range(emojis[k]) : k \in DOMAIN emojis}
        \cup {Emoji(c, id, 0, o) : c \in EmojiClasses, id \in EmojiIds,
                                   o \in OwnerIds}

DeleteEmoji(e) ==
    /\ LET r == DeleteEmojiOn(emojis, e)
       IN /\ emojis' = r.emojis
          /\ ret' = Ret("delete_emoji", e.cls, e.id, e, None, r.raised)
    /\ UNCHANGED <<cache_dict, max_messages, guilds, reactions, on_errors,
                   stickers, modals, users, messages, private_channels,
                   private_channels_by_user, views, polls, appended, pc_used,
                   busVars, nextObj>>

\* get_emoji: self._emojis.get(emoji_id) on the dict keyed by owner id; the
\* value found is the owner's list
GetEmojiOn(em, emoji_id) ==
    IF emoji_id \in DOMAIN em THEN PyList(em[emoji_id]) ELSE None

GetEmoji(emoji_id) ==
    /\ ret' = Ret("get_emoji", "", emoji_id, None,
                  GetEmojiOn(emojis, emoji_id), "")
    /\ UNCHANGED <<cacheVars, busVars, nextObj>>

\* ---- views
\* str(n) for the ids of the model
Str(n) ==
    CASE n = 0 -> "0" [] n = 1 -> "1" [] n = 2 -> "2" [] OTHER -> "3"

\* View.id, a string the view generated for itself
ViewIds == {"v1", "v2"}

\* a View: its own id and the id of the message it is attached to (0: none)
View(id, message) == [cls |-> "View", id |-> id, message |-> message]

ViewInputs == {View(id, m) : id \in ViewIds, m \in {0} \cup MsgIds}

\* index of the entry of the dict with this key, 0 when absent
ViewIndex(vs, key) ==
    LET hits == {j \in 1..Len(vs) : vs[j].key = key}
    IN IF hits = {} THEN 0 ELSE CHOOSE j \in hits : TRUE

\* self._views[str(message_id or view.id)] = view ; the dict keeps the order
\* in which its keys were first set
StoreViewOn(vs, view, message_id) ==
    LET key == IF message_id # 0 THEN Str(message_id) ELSE view.id
        i == ViewIndex(vs, key)
    IN IF i = 0 THEN Append(vs, [key |-> key, view |-> view])
       ELSE [vs EXCEPT ![i].view = view]

StoreView(view, message_id) ==
    /\ views' = StoreViewOn(views, view, message_id)
    /\ ret' = Ret("store_view", view.id, message_id, view, None, "")
    /\ UNCHANGED <<cache_dict, max_messages, guilds, reactions, on_errors,
                   users, messages, private_channels, private_channels_by_user,
                   emojis, polls, stickers, modals, appended, pc_used, busVars,
                   nextObj>>

\* delete_view_on: the first stored view attached to the message is returned;
\* nothing is removed
DeleteViewOnValue(vs, message_id) ==
    LET hits == {j \in 1..Len(vs) : vs[j].view.message # 0
                                     /\ vs[j].view.message = message_id}
    IN IF hits = {} THEN None
       ELSE vs[CHOOSE j \in hits : \A k \in hits : j <= k].view

DeleteViewOn(message_id) ==
    /\ ret' = Ret("delete_view_on", "", message_id, None,
                  DeleteViewOnValue(views, message_id), "")
    /\ UNCHANGED <<cacheVars, busVars, nextObj>>

\* ---- stickers
Sticker(id, obj) == [cls |-> "GuildSticker", id |-> id, obj |-> obj]

StickerIds == {1, 2}

GuildIds == {1, 2}

\* store_sticker: append to the guild's list
StoreStickerOn(sts, guild_id, sticker) ==
    IF guild_id \in DOMAIN sts THEN [sts EXCEPT ![guild_id] = Append(@, sticker)]
    ELSE DictSet(sts, guild_id, <<sticker>>)

StoreSticker(guild_id, id) ==
    /\ nextObj <= MaxStickers
    /\ LET sticker == Sticker(id, nextObj)
       IN /\ stickers' = StoreStickerOn(stickers, guild_id, sticker)
          /\ ret' = Ret("store_sticker", "", guild_id, sticker, sticker, "")
    /\ nextObj' = nextObj + 1
    /\ UNCHANGED <<cache_dict, max_messages, guilds, reactions, on_errors,
                   users, messages, private_channels, private_channels_by_user,
                   emojis, views, polls, modals, appended, pc_used, busVars>>

\* delete_sticker: self._stickers.pop(sticker_id, None) on the guild-keyed dict
DeleteStickerOn(sts, sticker_id) == DictPop(sts, sticker_id)

DeleteSticker(sticker_id) ==
    /\ stickers' = DeleteStickerOn(stickers, sticker_id)
    /\ ret' = Ret("delete_sticker", "", sticker_id, None, None, "")
    /\ UNCHANGED <<cache_dict, max_messages, guilds, reactions, on_errors,
                   users, messages, private_channels, private_channels_by_user,
                   emojis, views, polls, modals, appended, pc_used, busVars,
                   nextObj>>

\* get_sticker: self._stickers.get(sticker_id) on the dict keyed by guild id;
\* the value found is the guild's list
GetStickerOn(sts, sticker_id) ==
    IF sticker_id \in DOMAIN sts THEN PyList(sts[sticker_id]) ELSE None

GetSticker(sticker_id) ==
    /\ ret' = Ret("get_sticker", "", sticker_id, None,
                  GetStickerOn(stickers, sticker_id), "")
    /\ UNCHANGED <<cacheVars, busVars, nextObj>>

\* ---- modals
\* custom ids are opaque strings
CustomId(n) == IF n = 1 THEN "m1" ELSE "m2"

CustomIds == {CustomId(n) : n \in MsgIds}

\* a Modal: its custom id and whether its callback raises
Modal(custom_id, raises) ==
    [cls |-> "Modal", custom_id |-> custom_id, raises |-> raises]

StoreModal(modal) ==
    /\ modals' = DictSet(modals, modal.custom_id, modal)
    /\ ret' = Ret("store_modal", modal.custom_id, 0, modal, None, "")
    /\ UNCHANGED <<cache_dict, max_messages, guilds, reactions, on_errors,
                   users, messages, private_channels, private_channels_by_user,
                   emojis, views, polls, stickers, appended, pc_used, busVars,
                   nextObj>>

DeleteModal(custom_id) ==
    /\ modals' = DictPop(modals, custom_id)
    /\ ret' = Ret("delete_modal", custom_id, 0, None, None, "")
    /\ UNCHANGED <<cache_dict, max_messages, guilds, reactions, on_errors,
                   users, messages, private_channels, private_channels_by_user,
                   emojis, views, polls, stickers, appended, pc_used, busVars,
                   nextObj>>

\* ---- guilds
\* a Guild: its id and its `unavailable` flag.  obj = 0: built by the caller.
Guild(id, obj, unavailable) ==
    [cls |-> "Guild", id |-> id, obj |-> obj, unavailable |-> unavailable]

GuildInputs == {Guild(id, 0, un) : id \in GuildIds, un \in BOOLEAN}

GetGuildOn(gds, id) == IF id \in DOMAIN gds THEN gds[id] ELSE None

GetGuild(id) ==
    /\ ret' = Ret("get_guild", "", id, None, GetGuildOn(guilds, id), "")
    /\ UNCHANGED <<cacheVars, busVars, nextObj>>

AddGuild(guild) ==
    /\ guilds' = DictSet(guilds, guild.id, guild)
    /\ ret' = Ret("add_guild", "", guild.id, guild, None, "")
    /\ UNCHANGED <<cache_dict, max_messages, reactions, on_errors, users,
                   messages, private_channels, private_channels_by_user,
                   emojis, views, polls, stickers, modals, appended, pc_used,
                   busVars, nextObj>>

\* delete_guild: self._guilds.pop(guild.id, None)
DeleteGuild(guild) ==
    /\ guilds' = DictPop(guilds, guild.id)
    /\ ret' = Ret("delete_guild", "", guild.id, guild, None, "")
    /\ UNCHANGED <<cache_dict, max_messages, reactions, on_errors, users,
                   messages, private_channels, private_channels_by_user,
                   emojis, views, polls, stickers, modals, appended, pc_used,
                   busVars, nextObj>>

\* ---- polls
\* PollAnswer.id of the answers every poll of the model offers
AnswerIds == {1, 2}

\* a Poll: whether it has results, and results._answer_counts, answer id ->
\* count, which lacks the answers nobody counted yet
Poll(results, counts) ==
    [cls |-> "Poll", results |-> results, counts |-> counts]

PollInputs == {Poll(FALSE, <<>>), Poll(TRUE, (1 :> 1))}

StorePoll(poll, message_id) ==
    /\ polls' = DictSet(polls, message_id, poll)
    /\ ret' = Ret("store_poll", "", message_id, None, None, "")
    /\ UNCHANGED <<cache_dict, max_messages, guilds, reactions, on_errors,
                   stickers, modals, users, messages, private_channels,
                   private_channels_by_user, emojis, views, appended, pc_used,
                   busVars, nextObj>>

\* ---- clear
\* Lines 180-189 run, line 189 raises TypeError, lines 191-192 do not run:
\* the private-channel attributes are left as they were.
Clear(flag) ==
    /\ users' = <<>>
    /\ polls' = <<>>
    /\ stickers' = <<>>
    /\ modals' = <<>>
    /\ guilds' = <<>>
    /\ reactions' = <<>>
    /\ views' = IF flag THEN <<>> ELSE views
    /\ messages' = <<>>
    /\ appended' = <<>>
    /\ emojis' = <<>>
    /\ cache_dict' = cache_dict \cup ClearAssigned
                        \cup (IF flag THEN {"_views"} ELSE {})
    /\ ret' = Ret("clear", IF flag THEN "True" ELSE "False", 0, None, None,
                  ClearRaises)
    /\ UNCHANGED <<max_messages, on_errors, private_channels,
                   private_channels_by_user, pc_used, busVars, nextObj>>

\* ------------------------------------------------------ EventEmitter
\* A materialized event: its kind, its own serial, the message whose
\* attributes it copied and, for MessageUpdate, `old`.
Eve(kind, obj, msg, old) == [kind |-> kind, obj |-> obj, msg |-> msg, old |-> old]

NoEvent == Eve("", 0, None, None)

Pending(kind) == [state |-> "PENDING", result |-> NoEvent, kind |-> kind]

\* list.remove(x): the first occurrence
ListRemove(s, x) == SeqRemoveAt(s, IndexFrom(s, x, 1))

\* add_event on an existing registry
AddEventOn(evs, kind) ==
    IF EventName(kind) \in DOMAIN evs
    THEN [evs EXCEPT ![EventName(kind)] = Append(@, kind)]
    ELSE DictSet(evs, EventName(kind), <<kind>>)

AddEvent(kind) ==
    /\ IF "_events" \notin bus_dict
       THEN /\ ret' = Ret("add_event", kind, 0, None, None, "AttributeError")
            /\ UNCHANGED events
       ELSE /\ events' = AddEventOn(events, kind)
            /\ ret' = Ret("add_event", kind, 0, None, None, "")
    /\ UNCHANGED <<cacheVars, bus_dict, listeners, wait_fors, futures, tasks,
                   subscribed, last_events, nextObj>>

\* remove_event pops the whole list registered under the kind's wire name
RemoveEvent(kind) ==
    /\ IF "_events" \notin bus_dict
       THEN /\ ret' = Ret("remove_event", kind, 0, None, None,
                          "AttributeError")
            /\ UNCHANGED events
       ELSE /\ events' = DictPop(events, EventName(kind))
            /\ ret' = Ret("remove_event", kind, 0, None, None, "")
    /\ UNCHANGED <<cacheVars, bus_dict, listeners, wait_fors, futures, tasks,
                   subscribed, last_events, nextObj>>

\* add_listener: a known kind gets the listener appended; for an unknown kind
\* add_event runs first, and its AttributeError leaves _listeners untouched.
AddListener(kind, listener) ==
    /\ IF kind \in DOMAIN listeners
       THEN /\ listeners' = [listeners EXCEPT ![kind] = Append(@, listener)]
            /\ ret' = Ret("add_listener", kind, 0, None, None, "")
            /\ UNCHANGED events
       ELSE IF "_events" \notin bus_dict
       THEN /\ ret' = Ret("add_listener", kind, 0, None, None,
                          "AttributeError")
            /\ UNCHANGED <<listeners, events>>
       ELSE /\ events' = AddEventOn(events, kind)
            /\ listeners' = DictSet(listeners, kind, <<listener>>)
            /\ ret' = Ret("add_listener", kind, 0, None, None, "")
    /\ subscribed' = subscribed \cup {<<kind, listener>>}
    /\ UNCHANGED <<cacheVars, bus_dict, wait_fors, futures, tasks, last_events,
                   nextObj>>

RemoveListener(kind, listener) ==
    /\ IF kind \notin DOMAIN listeners
       THEN /\ ret' = Ret("remove_listener", kind, 0, None, None, "KeyError")
            /\ UNCHANGED <<listeners, subscribed>>
       ELSE IF listener \notin Range(listeners[kind])
       THEN /\ ret' = Ret("remove_listener", kind, 0, None, None,
                          "ValueError")
            /\ UNCHANGED <<listeners, subscribed>>
       ELSE /\ listeners' = [listeners EXCEPT
                                ![kind] = ListRemove(@, listener)]
            /\ subscribed' =
                   IF listener \in Range(ListRemove(listeners[kind], listener))
                   THEN subscribed ELSE subscribed \ {<<kind, listener>>}
            /\ ret' = Ret("remove_listener", kind, 0, None, None, "")
    /\ UNCHANGED <<cacheVars, bus_dict, events, wait_fors, futures, tasks,
                   last_events, nextObj>>

\* add_wait_for: a new pending Future, appended to the kind's list
AddWaitFor(kind) ==
    /\ Cardinality(DOMAIN futures) < MaxFutures
    /\ LET fut == Cardinality(DOMAIN futures) + 1
       IN /\ futures' = DictSet(futures, fut, Pending(kind))
          /\ wait_fors' = IF kind \in DOMAIN wait_fors
                          THEN [wait_fors EXCEPT ![kind] = Append(@, fut)]
                          ELSE DictSet(wait_fors, kind, <<fut>>)
          /\ ret' = Ret("add_wait_for", kind, fut, None, None, "")
    /\ UNCHANGED <<cacheVars, bus_dict, listeners, events, tasks, subscribed,
                   last_events, nextObj>>

RemoveWaitFor(kind, fut) ==
    /\ IF kind \notin DOMAIN wait_fors
       THEN /\ ret' = Ret("remove_wait_for", kind, fut, None, None,
                          "KeyError")
            /\ UNCHANGED wait_fors
       ELSE IF fut \notin Range(wait_fors[kind])
       THEN /\ ret' = Ret("remove_wait_for", kind, fut, None, None,
                          "ValueError")
            /\ UNCHANGED wait_fors
       ELSE /\ wait_fors' = [wait_fors EXCEPT ![kind] = ListRemove(@, fut)]
            /\ ret' = Ret("remove_wait_for", kind, fut, None, None, "")
    /\ UNCHANGED <<cacheVars, bus_dict, listeners, events, futures, tasks,
                   subscribed, last_events, nextObj>>

\* Future.cancel(), called by the owner of a waiter: a pending future becomes
\* cancelled, a done one is left alone.  Nothing tells the bus.
CancelWaitFor(fut) ==
    /\ futures' = IF futures[fut].state = "PENDING"
                  THEN [futures EXCEPT ![fut].state = "CANCELLED"]
                  ELSE futures
    /\ ret' = Ret("cancel", futures[fut].kind, fut, None, None, "")
    /\ UNCHANGED <<cacheVars, bus_dict, listeners, events, wait_fors, tasks,
                   subscribed, last_events, nextObj>>

\* ---- emit
\* utils.MISSING, the `old` of a MessageUpdate whose message is not cached
Missing == Obj("Missing", 0, 0, "", 0, FALSE)

\* What one dispatch reads and writes while it runs.
EmitState(msgs, app, pls, mds, gds, rts, errs, serial, tsk, futs, wfs, exc) ==
    [messages |-> msgs, appended |-> app, polls |-> pls, modals |-> mds,
     guilds |-> gds, reactions |-> rts, on_errors |-> errs, nextObj |-> serial,
     tasks |-> tsk, futures |-> futs, wait_fors |-> wfs, raised |-> exc,
     loaded |-> <<>>]

\* What __load__ gives: the event (NoEvent for None), the state it leaves and
\* the exception it raised.
Loaded(eve, st, raised) == [eve |-> eve, st |-> st, raised |-> raised]

\* MessageCreate.__load__: builds the message, copies it into the event and
\* has the store build and append its own Message from the same payload.
LoadMessageCreate(id, st) ==
    LET message == NewMessage(id, st.nextObj)
        cached == NewMessage(id, st.nextObj + 2)
    IN Loaded(Eve("MessageCreate", st.nextObj + 1, message, None),
              [st EXCEPT !.messages = DequeAppend(@, cached, max_messages),
                         !.appended = Append(@, cached),
                         !.nextObj = @ + 3],
              "")

\* MessageUpdate.__load__: a cached message is kept as `old` and a new
\* Message is appended by store_message; an uncached one gives old = MISSING.
LoadMessageUpdate(id, st) ==
    LET msg == GetMessageOn(st.messages, id)
        new_msg == NewMessage(id, st.nextObj + 1)
    IN IF msg # None
       THEN Loaded(Eve("MessageUpdate", st.nextObj, new_msg, msg),
                   [st EXCEPT
                       !.messages = DequeAppend(@, new_msg, max_messages),
                       !.appended = Append(@, new_msg),
                       !.nextObj = @ + 2],
                   "")
       ELSE Loaded(Eve("MessageUpdate", st.nextObj, None, Missing),
                   [st EXCEPT !.nextObj = @ + 1], "")

\* lines 288-297 of PollVoteAdd.__load__ and 325-334 of
\* PollVoteRemove.__load__, which are the same text: a cached poll with
\* results gets the count of an answer it offers raised by one, or set to 1
\* when the answer has no count yet
CountVote(pls, data) ==
    IF /\ data.id \in DOMAIN pls
       /\ pls[data.id].results
       /\ data.answer_id \in AnswerIds
    THEN [pls EXCEPT
             ![data.id].counts =
                 IF data.answer_id \in DOMAIN @
                 THEN [@ EXCEPT ![data.answer_id] = @ + 1]
                 ELSE DictSet(@, data.answer_id, 1)]
    ELSE pls

\* PollVoteAdd.__load__ outside a guild: the user and the poll are looked up
\* in the store, the vote is counted, and the event is returned only when the
\* poll and the user are cached and the poll offers the answer.
LoadPollVoteAdd(data, st) ==
    LET user == GetUserOn(users, data.user_id)
        st1 == [st EXCEPT !.nextObj = @ + 1,
                          !.polls = CountVote(@, data)]
    IN IF /\ data.id \in DOMAIN st.polls
          /\ user # None
          /\ data.answer_id \in AnswerIds
       THEN Loaded(Eve("PollVoteAdd", st.nextObj, None, None), st1, "")
       ELSE Loaded(NoEvent, st1, "")

\* PollVoteRemove.__load__: the body of PollVoteAdd.__load__, line 330 raising
\* the count as line 293 does
LoadPollVoteRemove(data, st) ==
    LET user == GetUserOn(users, data.user_id)
        st1 == [st EXCEPT !.nextObj = @ + 1,
                          !.polls = CountVote(@, data)]
    IN IF /\ data.id \in DOMAIN st.polls
          /\ user # None
          /\ data.answer_id \in AnswerIds
       THEN Loaded(Eve("PollVoteRemove", st.nextObj, None, None), st1, "")
       ELSE Loaded(NoEvent, st1, "")

\* ReactionRemoveEmoji.__load__: line 251 reads the local `self` before line
\* 263 assigns it.
LoadReactionRemoveEmoji(data, st) == Loaded(NoEvent, st, "UnboundLocalError")

\* Event.__load__, inherited by a kind that defines none: returns None
LoadDefault(data, st) == Loaded(NoEvent, st, "")

\* MessageDelete.__load__: a cached message goes to cache.delete_message and
\* into the event; the event is returned either way.
LoadMessageDelete(data, st) ==
    LET msg == GetMessageOn(st.messages, data.id)
    IN Loaded(Eve("MessageDelete", st.nextObj, msg, None),
              [st EXCEPT !.nextObj = @ + 1,
                         !.messages = IF msg # None
                                      THEN DeleteMessageOn(@, data.id) ELSE @],
              "")

\* the reaction count of a message object (one emoji is modelled)
ReactionsOf(rts, msg) == IF msg.obj \in DOMAIN rts THEN rts[msg.obj] ELSE 0

\* cache.upsert_message(message) inside a load
Upsert(st, msg) ==
    [st EXCEPT !.messages = DequeAppend(@, msg, max_messages),
               !.appended = Append(@, msg)]

\* ReactionAdd.__load__: a cached message gets the reaction added in place
\* and is appended to the deque again.
LoadReactionAdd(data, st) ==
    LET message == GetMessageOn(st.messages, data.id)
        st1 == [st EXCEPT !.nextObj = @ + 1]
    IN Loaded(Eve("ReactionAdd", st.nextObj, message, None),
              IF message = None THEN st1
              ELSE Upsert([st1 EXCEPT
                              !.reactions =
                                  DictSet(@, message.obj,
                                          ReactionsOf(@, message) + 1)],
                          message),
              "")

\* ReactionRemove.__load__: _remove_reaction raises ValueError when the
\* cached message does not carry the reaction, which the load swallows;
\* otherwise the reaction is removed in place and the message appended again.
LoadReactionRemove(data, st) ==
    LET message == GetMessageOn(st.messages, data.id)
        st1 == [st EXCEPT !.nextObj = @ + 1]
    IN Loaded(Eve("ReactionRemove", st.nextObj, message, None),
              IF message = None \/ ReactionsOf(st.reactions, message) = 0
              THEN st1
              ELSE Upsert([st1 EXCEPT
                              !.reactions =
                                  DictSet(@, message.obj,
                                          ReactionsOf(@, message) - 1)],
                          message),
              "")

\* ReactionClear.__load__: message.reactions.clear() on a cached message
LoadReactionClear(data, st) ==
    LET message == GetMessageOn(st.messages, data.id)
        st1 == [st EXCEPT !.nextObj = @ + 1]
    IN Loaded(Eve("ReactionClear", st.nextObj, message, None),
              IF message = None THEN st1
              ELSE [st1 EXCEPT !.reactions = DictSet(@, message.obj, 0)],
              "")

\* InteractionCreate.__load__ for a modal submit: the stored modal with the
\* submitted custom id has its callback awaited and is deleted; when the
\* callback raises, the load returns what modal.on_error returns (None).
LoadInteractionCreate(data, st) ==
    LET custom_id == CustomId(data.id)
    IN IF custom_id \in DOMAIN st.modals /\ st.modals[custom_id].raises
       THEN Loaded(NoEvent,
                   [st EXCEPT !.nextObj = @ + 1,
                              !.on_errors = @ \cup {custom_id}],
                   "")
       ELSE Loaded(Eve("InteractionCreate", st.nextObj + 1, None, None),
                   [st EXCEPT !.nextObj = @ + 2,
                              !.modals = DictPop(@, custom_id)],
                   "")

\* for message in messages: await state.cache.delete_message(message.id)
RECURSIVE DeleteEach(_, _, _)
DeleteEach(d, ms, i) ==
    IF i > Len(ms) THEN d
    ELSE DeleteEach(DeleteMessageOn(d, ms[i].id), ms, i + 1)

\* MessageDeleteBulk.__load__: the cached messages whose ids are listed go
\* into the event; cache.delete_message is called for every cached message.
LoadMessageDeleteBulk(data, st) ==
    LET found_messages == SelectSeq(st.messages, LAMBDA m : m.id \in data.ids)
    IN Loaded(Eve("MessageDeleteBulk", st.nextObj,
                  PyList(found_messages), None),
              [st EXCEPT !.nextObj = @ + 1,
                         !.messages = DeleteEach(@, st.messages, 1)],
              "")

\* the body of emit's loop, defined below; GuildCreate.__load__ dispatches
\* from inside a dispatch
RECURSIVE EmitKinds(_, _, _, _)

\* GuildCreate.__load__: a guild that is not in the store is built from the
\* payload and added; then GUILD_JOIN is dispatched when guild.unavailable
\* is set and GUILD_AVAILABLE when it is not, with the guild as payload.
\* state._get_guild and state._add_guild are the store's get_guild and
\* add_guild; no guild needs chunking.
LoadGuildCreate(data, st) ==
    LET cached == GetGuildOn(st.guilds, data.id)
        guild == IF cached = None
                 THEN Guild(data.id, st.nextObj + 1, data.unavailable)
                 ELSE cached
        st1 == [st EXCEPT !.nextObj = @ + 2,
                          !.guilds = IF cached = None
                                     THEN DictSet(@, guild.id, guild) ELSE @]
        name == IF guild.unavailable THEN "GUILD_JOIN" ELSE "GUILD_AVAILABLE"
        st2 == EmitKinds(IF name \in DOMAIN events THEN events[name]
                         ELSE <<>>, 1, guild, st1)
    IN Loaded(Eve("GuildCreate", st.nextObj, guild, None),
              [st2 EXCEPT !.raised = ""], st2.raised)

\* GuildJoin.__load__: the payload is the guild
LoadGuildJoin(data, st) ==
    Loaded(Eve("GuildJoin", st.nextObj, data, None),
           [st EXCEPT !.nextObj = @ + 1], "")

\* GuildAvailable.__load__: the payload is the guild
LoadGuildAvailable(data, st) ==
    Loaded(Eve("GuildAvailable", st.nextObj, data, None),
           [st EXCEPT !.nextObj = @ + 1], "")

Load(kind, data, st) ==
    CASE kind = "MessageCreate" -> LoadMessageCreate(data.id, st)
      [] kind = "MessageUpdate" -> LoadMessageUpdate(data.id, st)
      [] kind = "PollVoteAdd" -> LoadPollVoteAdd(data, st)
      [] kind = "PollVoteRemove" -> LoadPollVoteRemove(data, st)
      [] kind = "ReactionRemoveEmoji" -> LoadReactionRemoveEmoji(data, st)
      [] kind = "MessageDelete" -> LoadMessageDelete(data, st)
      [] kind = "ReactionAdd" -> LoadReactionAdd(data, st)
      [] kind = "ReactionRemove" -> LoadReactionRemove(data, st)
      [] kind = "ReactionClear" -> LoadReactionClear(data, st)
      [] kind = "InteractionCreate" -> LoadInteractionCreate(data, st)
      [] kind = "MessageDeleteBulk" -> LoadMessageDeleteBulk(data, st)
      [] kind = "GuildCreate" -> LoadGuildCreate(data, st)
      [] kind = "GuildJoin" -> LoadGuildJoin(data, st)
      [] kind = "GuildAvailable" -> LoadGuildAvailable(data, st)
      [] OTHER -> LoadDefault(data, st)

\* for func in funcs: asyncio.create_task(func(eve))
CreateTasks(tsk, funcs, eve) ==
    tsk \o [i \in 1..Len(funcs) |-> [func |-> funcs[i], eve |-> eve]]

\* for wait_for in wait_fors: wait_for.set_result(eve); set_result on a Future
\* that is not pending raises InvalidStateError and ends the loop.
RECURSIVE SetResults(_, _, _, _)
SetResults(futs, wf, i, eve) ==
    IF i > Len(wf) THEN [futures |-> futs, raised |-> ""]
    ELSE IF futs[wf[i]].state # "PENDING"
    THEN [futures |-> futs, raised |-> "InvalidStateError"]
    ELSE SetResults([futs EXCEPT ![wf[i]].state = "FINISHED",
                                  ![wf[i]].result = eve],
                    wf, i + 1, eve)

\* the body of emit's loop for the kinds registered under the name
EmitKinds(ks, i, data, st) ==
    IF i > Len(ks) \/ st.raised # "" THEN st
    ELSE LET kind == ks[i]
             l == Load(kind, data, st)
             funcs == IF kind \in DOMAIN listeners
                      THEN listeners[kind] ELSE <<>>
             s1 == [l.st EXCEPT !.tasks = CreateTasks(@, funcs, l.eve),
                                !.loaded = Append(@, l.eve)]
         IN IF l.raised # "" THEN [l.st EXCEPT !.raised = l.raised]
            ELSE IF l.eve = NoEvent THEN EmitKinds(ks, i + 1, data, l.st)
            ELSE IF kind \notin DOMAIN s1.wait_fors
            THEN EmitKinds(ks, i + 1, data, s1)
            ELSE LET r == SetResults(s1.futures, s1.wait_fors[kind], 1, l.eve)
                 IN EmitKinds(ks, i + 1, data,
                        [s1 EXCEPT
                            !.futures = r.futures,
                            !.raised = r.raised,
                            !.wait_fors = IF r.raised = ""
                                          THEN DictPop(@, kind) ELSE @])

\* emit(event_str, data): line 83 reads self._events, which __init__ only
\* annotates and never assigns.
Emit(name, data) ==
    IF "_events" \notin bus_dict
    THEN /\ ret' = Ret("emit", name, data.id, None, None, "AttributeError")
         /\ last_events' = <<>>
         /\ UNCHANGED <<cacheVars, bus_dict, listeners, events, wait_fors,
                        futures, tasks, subscribed, nextObj>>
    ELSE LET ks == IF name \in DOMAIN events THEN events[name] ELSE <<>>
             st == EmitKinds(ks, 1, data,
                       EmitState(messages, appended, polls, modals, guilds,
                                 reactions, on_errors, nextObj, tasks,
                                 futures, wait_fors, ""))
         IN /\ nextObj + 3 * Len(ks) <= MaxObjects + 1
            /\ Len(appended) + Len(ks) <= MaxAppends
            /\ messages' = st.messages
            /\ appended' = st.appended
            /\ polls' = st.polls
            /\ nextObj' = st.nextObj
            /\ tasks' = st.tasks
            /\ futures' = st.futures
            /\ wait_fors' = st.wait_fors
            /\ last_events' = st.loaded
            /\ ret' = Ret("emit", name, data.id, None, None, st.raised)
            /\ modals' = st.modals
            /\ reactions' = st.reactions
            /\ on_errors' = st.on_errors
            /\ guilds' = st.guilds
            /\ UNCHANGED <<cache_dict, max_messages, stickers, emojis, views,
                           users, private_channels, private_channels_by_user,
                           pc_used, bus_dict, listeners, events, subscribed>>

\* ------------------------------------------------------ specification
\* MemoryCache.__init__ stores its arguments and calls clear(), which raises
\* at line 189: the private-channel attributes are never assigned.
\* EventEmitter.__init__ assigns _listeners, _wait_fors and _state; _events is
\* annotated only.
Init ==
    /\ max_messages \in {NoMaxlen} \cup 0..MaxN
    /\ cache_dict = {"_state", "max_messages", "_views"} \cup ClearAssigned
    /\ users = <<>>
    /\ messages = <<>>
    /\ private_channels = <<>>
    /\ private_channels_by_user = <<>>
    /\ emojis = <<>>
    /\ views = <<>>
    /\ polls = <<>>
    /\ stickers = <<>>
    /\ modals = <<>>
    /\ guilds = <<>>
    /\ reactions = <<>>
    /\ on_errors = {}
    /\ bus_dict = {"_listeners", "_wait_fors", "_state"}
    /\ listeners = <<>>
    /\ events = <<>>
    /\ wait_fors = <<>>
    /\ futures = <<>>
    /\ tasks = <<>>
    /\ subscribed = {}
    /\ last_events = <<>>
    /\ nextObj = 1
    /\ appended = <<>>
    /\ pc_used = <<>>
    /\ ret = Ret("__init__", "", 0, None, None, ClearRaises)

NextUsers ==
    \/ \E p \in UserPayloads : StoreUser(p)
    \/ \E id \in UserIds : DeleteUser(id)
    \/ \E id \in UserIds : GetUser(id)

NextMessages ==
    \/ \E id \in MsgIds : StoreMessage(id)
    \/ \E m \in HeldMessages : UpsertMessage(m)
    \/ \E id \in MsgIds : GetMessage(id)
    \/ \E id \in MsgIds : DeleteMessage(id)

NextPrivate ==
    \/ \E ch \in CandidateChannels : StorePrivateChannel(ch)
    \/ \E id \in CandidateIds : GetPrivateChannel(id)
    \/ \E uid \in UserIds : GetPrivateChannelByUser(uid)

NextBus ==
    \/ \E k \in Kinds : AddEvent(k)
    \/ \E k \in Kinds : RemoveEvent(k)
    \/ \E k \in Kinds, l \in Listeners : AddListener(k, l)
    \/ \E k \in Kinds, l \in Listeners : RemoveListener(k, l)
    \/ \E k \in Kinds : AddWaitFor(k)
    \/ \E k \in Kinds, f \in DOMAIN futures : RemoveWaitFor(k, f)
    \/ \E f \in DOMAIN futures : CancelWaitFor(f)
    \/ \E n \in EventNames, d \in Payloads : Emit(n, d)

NextClear == \E flag \in BOOLEAN : Clear(flag)

NextEmojis ==
    \/ \E g \in OwnerIds, id \in EmojiIds : StoreGuildEmoji(g, id)
    \/ \E a \in OwnerIds, id \in EmojiIds : StoreAppEmoji(a, id)
    \/ \E e \in HeldEmojis : DeleteEmoji(e)
    \/ \E id \in EmojiIds : GetEmoji(id)

NextViews ==
    \/ \E v \in ViewInputs : StoreView(v, v.message)
    \/ \E v \in ViewInputs : StoreView(v, 0)
    \/ \E id \in MsgIds : DeleteViewOn(id)

NextPolls == \E p \in PollInputs, id \in MsgIds : StorePoll(p, id)

NextStickers ==
    \/ \E g \in GuildIds, id \in StickerIds : StoreSticker(g, id)
    \/ \E id \in StickerIds : DeleteSticker(id)
    \/ \E id \in StickerIds : GetSticker(id)

NextGuilds ==
    \/ \E g \in GuildInputs : AddGuild(g)
    \/ \E g \in GuildInputs : DeleteGuild(g)
    \/ \E id \in GuildIds : GetGuild(id)

NextModals ==
    \/ \E c \in CustomIds, r \in BOOLEAN : StoreModal(Modal(c, r))
    \/ \E c \in CustomIds : DeleteModal(c)

Next ==
    \/ NextUsers \/ NextMessages \/ NextPrivate \/ NextEmojis \/ NextViews
    \/ NextPolls \/ NextStickers \/ NextModals \/ NextGuilds
    \/ NextBus \/ NextClear

Spec == Init /\ [][Next]_vars

\* The user mapping alone.
SpecUsers == Init /\ [][NextUsers \/ NextClear]_vars

\* The message deque alone.
SpecMessages == Init /\ [][NextMessages \/ NextClear]_vars

\* The private-channel map and its by-user index alone.
SpecPrivate == Init /\ [][NextPrivate \/ NextClear]_vars

\* The emoji lists alone.
SpecEmojis == Init /\ [][NextEmojis \/ NextClear]_vars

\* The mappings clear assigns, with users, polls and modals stored.
SpecClear == Init /\ [][NextUsers \/ NextPolls \/ NextModals \/ NextClear]_vars

\* The view mapping alone.
SpecViews == Init /\ [][NextViews \/ NextClear]_vars

\* The sticker lists alone.
SpecStickers == Init /\ [][NextStickers \/ NextClear]_vars

\* The event bus alone.
SpecBus == Init /\ [][NextBus]_vars

\* Dispatches and the message deque their events read and write.
NextDispatch ==
    \/ \E k \in Kinds, l \in Listeners : AddListener(k, l)
    \/ \E n \in EventNames, d \in Payloads : Emit(n, d)

SpecDispatch == Init /\ [][NextDispatch \/ NextMessages]_vars

\* Dispatches of the kinds whose __load__ can end without an event, with the
\* polls and users those loads look up.
NextSuppress ==
    \/ \E k \in SuppressKinds, l \in Listeners : AddListener(k, l)
    \/ \E k \in SuppressKinds : AddWaitFor(k)
    \/ \E d \in PollPayloads : Emit("MESSAGE_POLL_VOTE_ADD", d)
    \/ \E d \in Payloads : Emit("MESSAGE_REACTION_REMOVE_EMOJI", d)
    \/ NextPolls

SpecSuppress == Init /\ [][NextSuppress]_vars

\* Two kinds registered under one wire name.
NextSiblings ==
    \/ \E k \in SiblingKinds : AddEvent(k)
    \/ \E k \in SiblingKinds : RemoveEvent(k)
    \/ \E k \in SiblingKinds, l \in Listeners : AddListener(k, l)
    \/ \E k \in SiblingKinds : AddWaitFor(k)
    \/ \E d \in Payloads : Emit("MESSAGE_CREATE", d)

SpecSiblings == Init /\ [][NextSiblings]_vars

\* Dispatches of the update and removal events of a message, with the
\* message deque.
NextRemoval ==
    \/ \E k \in RemovalKinds : AddListener(k, "L1")
    \/ \E n \in RemovalNames, d \in Payloads : Emit(n, d)
    \/ \E id \in MsgIds : StoreMessage(id)
    \/ \E id \in MsgIds : DeleteMessage(id)
    \/ \E id \in MsgIds : GetMessage(id)

SpecRemoval == Init /\ [][NextRemoval]_vars

\* Modal submits and the modal mapping.
NextInteraction ==
    \/ \E l \in Listeners : AddListener("InteractionCreate", l)
    \/ \E d \in Payloads : Emit("INTERACTION_CREATE", d)

SpecModals == Init /\ [][NextInteraction \/ NextModals]_vars

\* The emoji lists and the sticker lists, read by id.
SpecEntities == Init /\ [][NextEmojis \/ NextStickers]_vars

\* The delete operations, each called with every key, and one store per
\* mapping to fill what they delete from.
NextDeletes ==
    \/ StoreUser([id |-> 1, discriminator |-> "0001"])
    \/ \E id \in UserIds : DeleteUser(id)
    \/ AddGuild(Guild(1, 0, FALSE))
    \/ \E g \in GuildInputs : DeleteGuild(g)
    \/ StoreModal(Modal(CustomId(1), FALSE))
    \/ \E c \in CustomIds : DeleteModal(c)
    \/ \E g \in GuildIds : StoreSticker(g, 1)
    \/ \E id \in StickerIds : DeleteSticker(id)
    \/ StoreGuildEmoji(1, 1)
    \/ \E e \in HeldEmojis : DeleteEmoji(e)

SpecDeletes == Init /\ [][NextDeletes]_vars

\* GUILD_CREATE dispatches and the guild mapping.
NextGuildEvents ==
    \/ \E k \in GuildKinds, l \in Listeners : AddListener(k, l)
    \/ \E d \in GuildPayloads : Emit("GUILD_CREATE", d)

SpecGuilds == Init /\ [][NextGuildEvents \/ NextGuilds]_vars

\* MESSAGE_DELETE_BULK dispatches and the message deque.
NextBulk ==
    \/ \E l \in Listeners : AddListener("MessageDeleteBulk", l)
    \/ \E d \in BulkPayloads : Emit("MESSAGE_DELETE_BULK", d)
    \/ \E id \in MsgIds : StoreMessage(id)
    \/ \E id \in MsgIds : GetMessage(id)

SpecBulk == Init /\ [][NextBulk]_vars

\* Poll vote dispatches and the poll mapping.
NextPollVotes ==
    \/ \E k \in PollKinds, l \in Listeners : AddListener(k, l)
    \/ \E k \in PollKinds, d \in PollPayloads : Emit(EventName(k), d)

SpecPolls == Init /\ [][NextPollVotes \/ NextPolls]_vars

\* ------------------------------------------------------------- claims
LastN(s, n) == SubSeq(s, Len(s) - n + 1, Len(s))

Min(a, b) == IF a < b THEN a ELSE b

\* C1: with a raising listener L1 and a recording listener L2 registered on a
\* kind, a dispatch of the kind's wire name does not raise to its caller and
\* invokes L2 exactly once with the materialized event.
C1_ListenerIsolation ==
    \A k \in Kinds :
        (/\ ret.op = "emit"
         /\ ret.name = EventName(k)
         /\ {<<k, "L1">>, <<k, "L2">>} \subseteq subscribed)
        => /\ ret.raised = ""
           /\ \E e \in Range(last_events) :
                 /\ e.kind = k
                 /\ Cardinality({i \in DOMAIN tasks :
                        tasks[i].func = "L2" /\ tasks[i].eve = e}) = 1

\* C2: after a dispatch of a kind's wire name the bus holds no pending waiter
\* for the kind, and every waiter created for the kind before it is resolved
\* with the instance the dispatch materialized.
C2_WaiterResolved ==
    \A k \in Kinds :
        (/\ ret.op = "emit"
         /\ ret.name = EventName(k)
         /\ \E l \in Listeners : <<k, l>> \in subscribed)
        => /\ k \notin DOMAIN wait_fors
           /\ \A f \in DOMAIN futures :
                 futures[f].state = "FINISHED"
                 => /\ futures[f].result.kind = futures[f].kind
                    /\ futures[f].kind = k
                       => futures[f].result \in Range(last_events)

\* C3: the private-channel map never holds more than 128 entries, and once
\* more than 128 distinct ids were used it holds exactly the 128 most recently
\* used ids.
C3_LruRetainsMostRecent ==
    /\ Len(private_channels) <= Capacity
    /\ Len(pc_used) > Capacity
       => /\ "_private_channels" \in cache_dict
          /\ IdsOf(private_channels) = Range(LastN(pc_used, Capacity))

C5_RingBufferKeepsNewest ==
    max_messages # NoMaxlen
    => /\ Len(messages) <= max_messages
       /\ messages = LastN(appended, Min(max_messages, Len(appended)))
       /\ (/\ ret.op = "get_message"
           /\ ret.key \notin
                 IdsOf(LastN(appended, Min(max_messages, Len(appended)))))
          => ret.value = None

C5_Witness ==
    /\ max_messages # NoMaxlen
    /\ max_messages > 0
    /\ Len(appended) > max_messages
    /\ ret.op = "get_message"
    /\ ret.key \in IdsOf(appended)
    /\ ret.value = None

\* C6: get_message returns the most recently appended entry with the id, and
\* after a MESSAGE_UPDATE dispatch for a cached message it returns the updated
\* message while the event's `old` is the message cached before.
C6_NewestWinsAfterUpdate ==
    /\ ret.op = "get_message"
       => \/ /\ ret.value = None
             /\ ret.key \notin IdsOf(messages)
          \/ \E i \in 1..Len(messages) :
                /\ messages[i] = ret.value
                /\ messages[i].id = ret.key
                /\ \A j \in (i + 1)..Len(messages) : messages[j].id # ret.key
    /\ (/\ ret.op = "emit"
        /\ ret.name = "MESSAGE_UPDATE"
        /\ \E l \in Listeners : <<"MessageUpdate", l>> \in subscribed
        /\ ret.key \in IdsOf(messages))
       => /\ ret.raised = ""
          /\ \E e \in Range(last_events) :
                /\ e.kind = "MessageUpdate"
                /\ e.msg = GetMessageOn(messages, ret.key)
                /\ e.old \in Range(appended)
                /\ e.old.obj < e.msg.obj

\* C7: store_user with a "0000" payload returns a freshly constructed user
\* that is not in the user mapping, and get_user of its id returns None.
C7_ExcludedUserNeverCached ==
    (ret.op = "store_user" /\ ret.name = "0000")
    => /\ ret.value.obj = nextObj - 1
       /\ ret.value \notin {users[id] : id \in DOMAIN users}
       /\ GetUserOn(users, ret.key) = None

\* C8: store_user with a storable payload leaves the returned instance under
\* its id; when the id is already in the mapping it returns the instance that
\* is there and leaves the mapping unchanged.
C8_StoreUserIdempotent ==
    /\ []((ret.op = "store_user" /\ ret.name # "0000")
          => /\ ret.key \in DOMAIN users
             /\ users[ret.key] = ret.value)
    /\ [][(/\ ret'.op = "store_user"
           /\ ret'.name # "0000"
           /\ ret'.key \in DOMAIN users)
          => /\ ret'.value = users[ret'.key]
             /\ users' = users
             /\ nextObj' = nextObj]_vars

C8_Witness ==
    /\ ret.op = "store_user"
    /\ ret.name # "0000"
    /\ ret.value.obj < nextObj - 1
    /\ users[ret.key] = ret.value

\* C9: get_private_channel of an id that was stored and is among the 128 most
\* recently used returns the channel and leaves it at the most-recently-used
\* end of the map.
C9_GetPromotes ==
    (/\ ret.op = "get_private_channel"
     /\ ret.key \in Range(LastN(pc_used, Min(Capacity, Len(pc_used)))))
    => /\ ret.raised = ""
       /\ ret.value.id = ret.key
       /\ Len(private_channels) > 0
       /\ private_channels[Len(private_channels)] = ret.value

\* C10: after store_private_channel the stored channel is the entry at the
\* most-recently-used end of the map, for a new id and for a present id.
C10_StoreRefreshes ==
    ret.op = "store_private_channel"
    => /\ ret.raised = ""
       /\ Len(private_channels) > 0
       /\ private_channels[Len(private_channels)] = ret.arg

\* C11: delete_emoji takes the owner list from the emoji's variant (the
\* application id of an AppEmoji, the guild id of a GuildEmoji) and changes
\* that list only: every other owner's list, and so an emoji of the other
\* variant with the same numeric id stored under another owner, is left as it
\* was; a successful call shortens the chosen list by the one entry.
C11_DeleteEmojiOwnerListOnly ==
    [][ret'.op = "delete_emoji"
       => LET e == ret'.arg
              key == IF e.cls = "AppEmoji" THEN e.application_id
                     ELSE e.guild_id
          IN /\ \A k \in DOMAIN emojis \ {key} :
                   k \in DOMAIN emojis' /\ emojis'[k] = emojis[k]
             /\ ret'.raised = ""
                => /\ key \in DOMAIN emojis
                   /\ Len(emojis'[key]) = Len(emojis[key]) - 1
                   /\ \A x \in Range(emojis'[key]) : x \in Range(emojis[key])
             /\ ret'.raised # "" => emojis' = emojis]_vars

\* a guild emoji was deleted while an application emoji with the same numeric
\* id is stored under another owner
C11_Witness ==
    /\ ret.op = "delete_emoji"
    /\ ret.raised = ""
    /\ ret.arg.cls = "GuildEmoji"
    /\ \E k \in DOMAIN emojis \ {ret.arg.guild_id} :
          \E x \in Range(emojis[k]) :
              x.cls = "AppEmoji" /\ x.id = ret.arg.id

\* C12: clear returns normally and leaves every mapping assigned and empty:
\* users, polls, messages, emojis, the private-channel map and its by-user
\* index; called without the flag it leaves the view mapping empty too.
C12_ClearResetsEveryMapping ==
    ret.op = "clear"
    => /\ ret.raised = ""
       /\ {"_private_channels", "_private_channels_by_user"}
             \subseteq cache_dict
       /\ users = <<>> /\ polls = <<>> /\ messages = <<>> /\ emojis = <<>>
       /\ private_channels = <<>> /\ private_channels_by_user = <<>>
       /\ ret.name = "False" => views = <<>>

\* the futures created for a kind
WaitersOf(k) == {f \in DOMAIN futures : futures[f].kind = k}

\* C13: a MESSAGE_CREATE dispatch returns with every waiter of MessageCreate
\* resolved with the event it materialized, and at that moment get_message of
\* the new id returns a message (when the deque can hold one).
C13_WaitersResolvedInsideDispatch ==
    (/\ ret.op = "emit"
     /\ ret.name = "MESSAGE_CREATE"
     /\ \E l \in Listeners : <<"MessageCreate", l>> \in subscribed
     /\ WaitersOf("MessageCreate") # {})
    => /\ ret.raised = ""
       /\ \A f \in WaitersOf("MessageCreate") :
             futures[f].state # "PENDING"
       /\ \A f \in WaitersOf("MessageCreate") :
             futures[f].state = "FINISHED"
             => futures[f].result.msg.id = ret.key
       /\ max_messages # 0 => GetMessageOn(messages, ret.key) # None

\* C14: a dispatch returns without waiting for its listeners: with a listener
\* L1 that never completes and a sibling L2 on the kind, every dispatch of
\* the kind returns normally, has started a task for L1 and one for L2 with
\* the event, and leaves no waiter of the kind pending.
C14_FanOutFireAndForget ==
    \A k \in Kinds :
        (/\ ret.op = "emit"
         /\ ret.name = EventName(k)
         /\ {<<k, "L1">>, <<k, "L2">>} \subseteq subscribed)
        => /\ ret.raised = ""
           /\ \A l \in {"L1", "L2"} :
                 \E i \in DOMAIN tasks :
                     tasks[i].func = l /\ tasks[i].eve \in Range(last_events)
           /\ \A f \in WaitersOf(k) : futures[f].state # "PENDING"

\* C15: a dispatch whose materialization gives no event (a poll vote for an
\* uncached poll, a reaction-remove-emoji for an uncached message) returns
\* normally, starts no task, resolves no waiter and leaves the waiter lists as
\* they were.
C15_NoEventSkipsFanOut ==
    [][(/\ ret'.op = "emit"
        /\ \/ /\ ret'.name = "MESSAGE_POLL_VOTE_ADD"
              /\ \E l \in Listeners : <<"PollVoteAdd", l>> \in subscribed
              /\ ret'.key \notin DOMAIN polls
           \/ /\ ret'.name = "MESSAGE_REACTION_REMOVE_EMOJI"
              /\ \E l \in Listeners :
                    <<"ReactionRemoveEmoji", l>> \in subscribed
              /\ ret'.key \notin IdsOf(messages))
       => /\ ret'.raised = ""
          /\ tasks' = tasks
          /\ futures' = futures
          /\ wait_fors' = wait_fors]_vars

\* C17: a cancelled waiter is in no per-kind list of the bus, and a dispatch
\* of its kind returns normally and leaves no other waiter of the kind
\* pending.
C17_CancelledWaiterReleased ==
    /\ \A f \in DOMAIN futures :
          futures[f].state = "CANCELLED"
          => \A k \in DOMAIN wait_fors : f \notin Range(wait_fors[k])
    /\ \A k \in Kinds :
          (/\ ret.op = "emit"
           /\ ret.name = EventName(k)
           /\ \E l \in Listeners : <<k, l>> \in subscribed
           /\ \E f \in WaitersOf(k) : futures[f].state = "CANCELLED")
          => /\ ret.raised = ""
             /\ \A f \in WaitersOf(k) : futures[f].state # "PENDING"

\* C20: every listener added with add_listener and not removed since is in
\* the listener list of its kind, the kind is registered under its wire name,
\* and add_listener returns normally.
C20_AddListenerRegisters ==
    /\ ret.op = "add_listener" => ret.raised = ""
    /\ \A p \in subscribed :
          /\ "_events" \in bus_dict
          /\ p[1] \in DOMAIN listeners
          /\ p[2] \in Range(listeners[p[1]])
          /\ EventName(p[1]) \in DOMAIN events
          /\ p[1] \in Range(events[EventName(p[1])])

\* C21: remove_event(K) returns normally and leaves K out of the registry
\* while every other kind registered under the same wire name stays
\* registered under it.
C21_RemoveEventRemovesOnlyKind ==
    ret.op = "remove_event"
    => /\ ret.raised = ""
       /\ EventName(ret.name) \in DOMAIN events
          => ret.name \notin Range(events[EventName(ret.name)])
       /\ \A p \in subscribed :
             (p[1] # ret.name /\ EventName(p[1]) = EventName(ret.name))
             => /\ EventName(p[1]) \in DOMAIN events
                /\ p[1] \in Range(events[EventName(p[1])])

\* C22: with MessageCreate and a sibling kind registered under MESSAGE_CREATE,
\* of which the sibling's materialization declines, a dispatch of the name
\* returns normally, materializes MessageCreate and starts a task with that
\* event for each listener of MessageCreate and for no other listener; a
\* resolved waiter holds an event of its own kind.
C22_SiblingKindsIndependent ==
    (/\ ret.op = "emit"
     /\ ret.name = "MESSAGE_CREATE"
     /\ \A k \in SiblingKinds : \E l \in Listeners : <<k, l>> \in subscribed)
    => /\ ret.raised = ""
       /\ \E e \in Range(last_events) :
             /\ e.kind = "MessageCreate"
             /\ \A l \in Listeners :
                   <<"MessageCreate", l>> \in subscribed
                   <=> \E i \in DOMAIN tasks :
                          tasks[i].func = l /\ tasks[i].eve = e
       /\ \A f \in DOMAIN futures :
             futures[f].state = "FINISHED"
             => futures[f].result.kind = futures[f].kind

\* C23: a dispatch of a kind with a listener runs the kind's load once: it
\* materializes one event, appends to the message deque at most once, and
\* every task it starts and every waiter it resolves gets that one event.
C23_OneInstancePerDispatch ==
    [][\A k \in Kinds :
         (/\ ret'.op = "emit"
          /\ ret'.name = EventName(k)
          /\ \E l \in Listeners : <<k, l>> \in subscribed
          /\ ret'.raised # "InvalidStateError")
         => /\ ret'.raised = ""
            /\ Len(last_events') = 1
            /\ Len(appended') <= Len(appended) + 1
            /\ Len(tasks') > Len(tasks)
            /\ \A i \in (Len(tasks) + 1)..Len(tasks') :
                  tasks'[i].eve = last_events'[1]
            /\ \A f \in DOMAIN futures :
                  (futures[f].state = "PENDING"
                   /\ futures'[f].state = "FINISHED")
                  => futures'[f].result = last_events'[1]]_vars

\* C24: deleting a message that is in the deque, by delete_message or by a
\* MESSAGE_DELETE dispatch, returns normally, leaves get_message of the id
\* returning None and keeps every message with another id.
C24_DeleteEventRemovesMessage ==
    [][(/\ ret'.key \in IdsOf(messages)
        /\ \/ ret'.op = "delete_message"
           \/ /\ ret'.op = "emit"
              /\ ret'.name = "MESSAGE_DELETE"
              /\ <<"MessageDelete", "L1">> \in subscribed)
       => /\ ret'.raised = ""
          /\ GetMessageOn(messages', ret'.key) = None
          /\ \A i \in 1..Len(messages) :
                messages[i].id # ret'.key
                => messages[i] \in Range(messages')]_vars

\* C25: a dispatch of MESSAGE_DELETE, MESSAGE_REACTION_ADD,
\* MESSAGE_REACTION_REMOVE, MESSAGE_REACTION_REMOVE_ALL or
\* MESSAGE_REACTION_REMOVE_EMOJI for an id that is not in the deque returns
\* normally and leaves the deque as it was.
C25_UncachedMessageEventNoOp ==
    [][\A k \in RemovalKinds :
         (/\ ret'.op = "emit"
          /\ ret'.name = EventName(k)
          /\ <<k, "L1">> \in subscribed
          /\ ret'.key \notin IdsOf(messages))
         => /\ ret'.raised = ""
            /\ messages' = messages]_vars

\* C26: an INTERACTION_CREATE dispatch of a modal submit whose custom id is
\* that of a stored modal returns normally; when the modal's callback
\* completes the modal is gone from the store and the other modals are
\* untouched, when it raises the modal's on_error has run.
C26_ModalRemovedOnceHandled ==
    [][(/\ ret'.op = "emit"
        /\ ret'.name = "INTERACTION_CREATE"
        /\ \E l \in Listeners : <<"InteractionCreate", l>> \in subscribed
        /\ CustomId(ret'.key) \in DOMAIN modals)
       => /\ ret'.raised = ""
          /\ ~modals[CustomId(ret'.key)].raises
             => /\ CustomId(ret'.key) \notin DOMAIN modals'
                /\ \A c \in DOMAIN modals \ {CustomId(ret'.key)} :
                      c \in DOMAIN modals' /\ modals'[c] = modals[c]
          /\ modals[CustomId(ret'.key)].raises
             => CustomId(ret'.key) \in on_errors']_vars

\* C27: store_view leaves the view under the string of the message id, or
\* under the view's own id when no message id is given; keys are unique; and
\* after delete_view_on(message_id) no stored view is attached to the message
\* or stored under its id.
C27_ViewKeyedAndDeleted ==
    /\ \A i, j \in 1..Len(views) : views[i].key = views[j].key => i = j
    /\ ret.op = "store_view"
       => \E i \in 1..Len(views) :
             /\ views[i].key = IF ret.key # 0 THEN Str(ret.key) ELSE ret.name
             /\ views[i].view = ret.arg
    /\ ret.op = "delete_view_on"
       => \A i \in 1..Len(views) :
             /\ views[i].view.message # ret.key
             /\ views[i].key # Str(ret.key)

\* C28: delete_sticker(id) leaves no sticker with the id in any guild's list
\* and keeps every sticker with another id in the list of its guild.
C28_DeleteStickerById ==
    [][ret'.op = "delete_sticker"
       => /\ \A g \in DOMAIN stickers' :
                \A x \in Range(stickers'[g]) : x.id # ret'.key
          /\ \A g \in DOMAIN stickers :
                \A x \in Range(stickers[g]) :
                    x.id # ret'.key
                    => g \in DOMAIN stickers' /\ x \in Range(stickers'[g])]_vars

\* C29: no owner's emoji list holds two emojis of one variant with the same
\* id, and no guild's sticker list holds two stickers with the same id.
C29_NoDuplicateIds ==
    /\ \A k \in DOMAIN emojis :
          \A i, j \in 1..Len(emojis[k]) :
              (emojis[k][i].id = emojis[k][j].id
               /\ emojis[k][i].cls = emojis[k][j].cls) => i = j
    /\ \A g \in DOMAIN stickers :
          \A i, j \in 1..Len(stickers[g]) :
              stickers[g][i].id = stickers[g][j].id => i = j

\* C30: a get with a key that is not present returns None, raises nothing
\* and leaves the mappings as they were.
C30_GetMissReturnsNone ==
    [][(\/ ret'.op = "get_user" /\ ret'.key \notin DOMAIN users
        \/ ret'.op = "get_message" /\ ret'.key \notin IdsOf(messages)
        \/ /\ ret'.op = "get_private_channel"
           /\ ret'.key \notin IdsOf(private_channels)
        \/ /\ ret'.op = "get_private_channel_by_user"
           /\ ret'.key \notin DOMAIN private_channels_by_user)
       => /\ ret'.raised = ""
          /\ ret'.value = None
          /\ UNCHANGED <<users, messages, private_channels,
                         private_channels_by_user>>]_vars

\* C31: while an emoji with id e is in an owner's list, get_emoji(e) returns a
\* stored emoji with that id, and while a sticker with id s is in a guild's
\* list, get_sticker(s) returns a stored sticker with that id.
C31_StoreThenGetById ==
    /\ \A k \in DOMAIN emojis :
          \A x \in Range(emojis[k]) :
              /\ GetEmojiOn(emojis, x.id).cls \in EmojiClasses
              /\ GetEmojiOn(emojis, x.id).id = x.id
    /\ \A g \in DOMAIN stickers :
          \A x \in Range(stickers[g]) :
              /\ GetStickerOn(stickers, x.id).cls = "GuildSticker"
              /\ GetStickerOn(stickers, x.id).id = x.id

C33_DeleteTotal ==
    [][(\/ ret'.op = "delete_user" /\ ret'.key \notin DOMAIN users
        \/ ret'.op = "delete_guild" /\ ret'.key \notin DOMAIN guilds
        \/ ret'.op = "delete_modal" /\ ret'.name \notin DOMAIN modals
        \/ /\ ret'.op = "delete_sticker"
           /\ \A g \in DOMAIN stickers :
                 \A x \in Range(stickers[g]) : x.id # ret'.key
        \/ /\ ret'.op = "delete_emoji"
           /\ \A k \in DOMAIN emojis :
                 \A x \in Range(emojis[k]) : x.id # ret'.key)
       => /\ ret'.raised = ""
          /\ UNCHANGED <<users, guilds, modals, stickers, emojis>>]_vars

\* C34: a GUILD_CREATE dispatch with listeners on the three guild kinds
\* returns normally and materializes exactly one derived event: GuildJoin
\* when the guild was not in the store, GuildAvailable when it was; the
\* derived event carries the guild of the GuildCreate event, and that guild
\* is in the store.
C34_GuildCreateTricklesDown ==
    [][(/\ ret'.op = "emit"
        /\ ret'.name = "GUILD_CREATE"
        /\ \A k \in GuildKinds : \E l \in Listeners : <<k, l>> \in subscribed)
       => /\ ret'.raised = ""
          /\ LET derived == {i \in 1..Len(last_events') :
                                last_events'[i].kind
                                    \in {"GuildJoin", "GuildAvailable"}}
             IN /\ Cardinality(derived) = 1
                /\ \A i \in derived :
                      /\ last_events'[i].kind =
                             IF ret'.key \in DOMAIN guilds
                             THEN "GuildAvailable" ELSE "GuildJoin"
                      /\ \E j \in 1..Len(last_events') :
                            /\ last_events'[j].kind = "GuildCreate"
                            /\ last_events'[j].msg = last_events'[i].msg
                      /\ ret'.key \in DOMAIN guilds'
                      /\ guilds'[ret'.key] = last_events'[i].msg]_vars

\* C35: a MESSAGE_DELETE_BULK dispatch returns normally, leaves in the deque
\* exactly the messages whose ids are not listed, in their order, and its
\* event carries exactly the cached messages whose ids are listed.
C35_BulkDeleteRemovesListed ==
    [][\A d \in BulkPayloads :
         (/\ Emit("MESSAGE_DELETE_BULK", d)
          /\ \E l \in Listeners : <<"MessageDeleteBulk", l>> \in subscribed)
         => /\ ret'.raised = ""
            /\ messages' = SelectSeq(messages, LAMBDA m : m.id \notin d.ids)
            /\ \E e \in Range(last_events') :
                  /\ e.kind = "MessageDeleteBulk"
                  /\ e.msg = PyList(SelectSeq(messages,
                                              LAMBDA m : m.id \in d.ids))]_vars

\* the number of entries of a sequence equal to x
CountOf(s, x) == Cardinality({i \in 1..Len(s) : s[i] = x})

\* C36: remove_listener(K, cb) of a listener that was added returns normally,
\* takes one registration of cb from K's list and leaves every other list as
\* it was; a dispatch of a kind that has a listener list returns normally
\* and starts a task for exactly the listeners that were added to the kind
\* and not removed since.
C36_RemoveListenerStopsDelivery ==
    [][/\ \A k \in Kinds, l \in Listeners :
             (RemoveListener(k, l) /\ <<k, l>> \in subscribed)
             => /\ ret'.raised = ""
                /\ k \in DOMAIN listeners
                /\ CountOf(listeners'[k], l) = CountOf(listeners[k], l) - 1
                /\ \A k2 \in DOMAIN listeners \ {k} :
                      listeners'[k2] = listeners[k2]
       /\ \A k \in Kinds :
             (/\ ret'.op = "emit"
              /\ ret'.name = EventName(k)
              /\ k \in DOMAIN listeners)
             => /\ ret'.raised \in {"", "InvalidStateError"}
                /\ \A l \in Listeners :
                      <<k, l>> \in subscribed
                      <=> \E i \in (Len(tasks) + 1)..Len(tasks') :
                             tasks'[i].func = l /\ tasks'[i].eve.kind = k]_vars

\* C37: no kind is twice in the list registered under its wire name, and a
\* dispatch of a kind that has listeners returns normally, materializes the
\* kind once and starts, for each listener added to the kind, as many tasks
\* as the listener has registrations, and at least one.
C37_KindRegisteredOnce ==
    /\ \A n \in DOMAIN events :
          \A i, j \in 1..Len(events[n]) :
              events[n][i] = events[n][j] => i = j
    /\ \A k \in Kinds :
          (/\ ret.op = "emit"
           /\ ret.name = EventName(k)
           /\ ret.raised # "InvalidStateError"
           /\ \E l \in Listeners : <<k, l>> \in subscribed)
          => /\ ret.raised = ""
             /\ Cardinality({i \in 1..Len(last_events) :
                                last_events[i].kind = k}) = 1
             /\ \A l \in Listeners :
                   <<k, l>> \in subscribed
                   => /\ k \in DOMAIN listeners
                      /\ CountOf(listeners[k], l) >= 1
                      /\ Cardinality({i \in DOMAIN tasks :
                             /\ tasks[i].func = l
                             /\ tasks[i].eve \in Range(last_events)})
                            = CountOf(listeners[k], l)

\* C38: every DM channel with a recipient that is in the primary map has an
\* entry for its recipient in the by-user index, that entry is a channel of
\* the primary map, and store_private_channel and
\* get_private_channel_by_user return normally.
C38_ByUserIndexComplete ==
    /\ \A i \in 1..Len(private_channels) :
          IsDMWithRecipient(private_channels[i])
          => /\ private_channels[i].recipient
                   \in DOMAIN private_channels_by_user
             /\ private_channels_by_user[private_channels[i].recipient]
                   \in Range(private_channels)
    /\ (ret.op = "store_private_channel" /\ IsDMWithRecipient(ret.arg))
       => /\ ret.raised = ""
          /\ ret.arg \in Range(private_channels)
    /\ ret.op = "get_private_channel_by_user" => ret.raised = ""

VoteCount(poll, a) == IF a \in DOMAIN poll.counts THEN poll.counts[a] ELSE 0

\* C40: for a cached poll with results and an answer it offers, a
\* MESSAGE_POLL_VOTE_ADD dispatch returns normally and raises the answer's
\* count by one, a MESSAGE_POLL_VOTE_REMOVE dispatch lowers it by one, and
\* the counts of the other answers and of the other polls stay as they were.
C40_PollVoteRoundTrip ==
    [][\A k \in PollKinds, d \in PollPayloads :
         (/\ Emit(EventName(k), d)
          /\ \E l \in Listeners : <<k, l>> \in subscribed
          /\ d.id \in DOMAIN polls
          /\ polls[d.id].results
          /\ d.answer_id \in AnswerIds)
         => /\ ret'.raised = ""
            /\ d.id \in DOMAIN polls'
            /\ VoteCount(polls'[d.id], d.answer_id)
                  = VoteCount(polls[d.id], d.answer_id)
                    + (IF k = "PollVoteAdd" THEN 1 ELSE -1)
            /\ \A a \in AnswerIds \ {d.answer_id} :
                  VoteCount(polls'[d.id], a) = VoteCount(polls[d.id], a)
            /\ \A id \in DOMAIN polls \ {d.id} :
                  id \in DOMAIN polls' /\ polls'[id] = polls[id]]_vars

====
